---------------------------- MODULE Spec2Model ----------------------------
(* A model of example/cpix_gen.py: the command-line CPIX generator.        *)
(* main() is one sequential process; pc is its position.  The appended     *)
(* argument lists (--key, --usage_rule_preset, --usage_rule) are read left *)
(* to right by for-loops, one element per iteration; the model reveals an  *)
(* element when the loop reaches it and keeps the elements read so far.    *)
(* Python strings are sequences of one-character strings (key specs) or of *)
(* lexemes (usage-rule filter strings), so that split, len and the base16  *)
(* and base64 codecs are computed, not assumed.                            *)
EXTENDS Integers, Sequences, FiniteSets, TLC

(***************************************************************************)
(* Bounds of the model.                                                    *)
(***************************************************************************)
MaxKeys == 2
MaxPresetRules == 2
MaxCustomRules == 1

(* parse_keys: len(kid) != 32, len(cek) != 32 *)
KeyHexLen == 32

None == "None"

Range(s) == {s[i] : i \in 1..Len(s)}

(***************************************************************************)
(* Python built-ins and standard library, as the script uses them.         *)
(***************************************************************************)

(* str.split(sep): the pieces between the occurrences of sep *)
RECURSIVE split(_, _)
split(s, sep) ==
    IF \A i \in 1..Len(s) : s[i] # sep
    THEN <<s>>
    ELSE LET i == CHOOSE k \in 1..Len(s) :
                      s[k] = sep /\ \A j \in 1..(k - 1) : s[j] # sep
         IN  <<SubSeq(s, 1, i - 1)>> \o split(SubSeq(s, i + 1, Len(s)), sep)

UpperHex == <<"0", "1", "2", "3", "4", "5", "6", "7", "8", "9", "A", "B", "C", "D", "E", "F">>
LowerHex == <<"0", "1", "2", "3", "4", "5", "6", "7", "8", "9", "a", "b", "c", "d", "e", "f">>

UpperHexDigits == Range(UpperHex)
HexDigits == Range(UpperHex) \cup Range(LowerHex)

IsHexDigit(c) == c \in HexDigits

HexValues == [c \in HexDigits |-> CHOOSE v \in 0..15 : UpperHex[v + 1] = c \/ LowerHex[v + 1] = c]

HexValue(c) == HexValues[c]

(* base64.b16decode(s), casefold=False: only 0-9A-F is the alphabet *)
NonBase16 == "Non-base16 digit found"
OddLength == "Odd-length string"

b16decode(s) ==
    IF \E i \in 1..Len(s) : s[i] \notin UpperHexDigits
    THEN [ok |-> FALSE, error |-> NonBase16]
    ELSE IF Len(s) % 2 # 0
    THEN [ok |-> FALSE, error |-> OddLength]
    ELSE [ok |-> TRUE,
          value |-> [i \in 1..(Len(s) \div 2) |->
                        16 * HexValue(s[2 * i - 1]) + HexValue(s[2 * i])]]

(* base64.b16encode(b): two upper-case digits per byte *)
b16encode(b) ==
    [k \in 1..(2 * Len(b)) |->
        LET byte == b[(k + 1) \div 2]
        IN  IF k % 2 = 1 THEN UpperHex[(byte \div 16) + 1]
                         ELSE UpperHex[(byte % 16) + 1]]

B64Alphabet ==
    <<"A", "B", "C", "D", "E", "F", "G", "H", "I", "J", "K", "L", "M", "N", "O", "P",
      "Q", "R", "S", "T", "U", "V", "W", "X", "Y", "Z", "a", "b", "c", "d", "e", "f",
      "g", "h", "i", "j", "k", "l", "m", "n", "o", "p", "q", "r", "s", "t", "u", "v",
      "w", "x", "y", "z", "0", "1", "2", "3", "4", "5", "6", "7", "8", "9", "+", "/">>

ByteAt(b, i) == IF i <= Len(b) THEN b[i] ELSE 0

(* base64.b64encode(b): three bytes to four characters, '=' padding *)
b64encode(b) ==
    [k \in 1..(4 * ((Len(b) + 2) \div 3)) |->
        LET j == (k - 1) \div 4
            r == (k - 1) % 4
            v == 65536 * ByteAt(b, 3 * j + 1) + 256 * ByteAt(b, 3 * j + 2)
                   + ByteAt(b, 3 * j + 3)
        IN  CASE r = 0 -> B64Alphabet[(v \div 262144) + 1]
              [] r = 1 -> B64Alphabet[((v \div 4096) % 64) + 1]
              [] r = 2 -> IF 3 * j + 2 > Len(b) THEN "="
                          ELSE B64Alphabet[((v \div 64) % 64) + 1]
              [] r = 3 -> IF 3 * j + 3 > Len(b) THEN "="
                          ELSE B64Alphabet[(v % 64) + 1]]

B64Indices == [c \in Range(B64Alphabet) |-> CHOOSE v \in 0..63 : B64Alphabet[v + 1] = c]

B64Index(c) == B64Indices[c]

SextetAt(s, i) == IF i <= Len(s) THEN B64Index(s[i]) ELSE 0

(* base64.b64decode(s): four characters to three bytes, padding dropped *)
b64decode(s) ==
    LET body == SelectSeq(s, LAMBDA c : c # "=")
    IN  [i \in 1..((6 * Len(body)) \div 8) |->
            LET j == (i - 1) \div 3
                r == (i - 1) % 3
                v == 262144 * SextetAt(body, 4 * j + 1) + 4096 * SextetAt(body, 4 * j + 2)
                       + 64 * SextetAt(body, 4 * j + 3) + SextetAt(body, 4 * j + 4)
            IN  CASE r = 0 -> v \div 65536
                  [] r = 1 -> (v \div 256) % 256
                  [] r = 2 -> v % 256]

(* uuid.UUID(hex): hyphens dropped, 32 hexadecimal digits of either case; *)
(* the value is the 128-bit integer, kept here as its 32 nibbles          *)
BadUuid == "badly formed hexadecimal UUID string"

UUID(hex) ==
    LET digits == SelectSeq(hex, LAMBDA c : c # "-")
    IN  IF Len(digits) # 32 \/ \E i \in 1..Len(digits) : ~IsHexDigit(digits[i])
        THEN [ok |-> FALSE, error |-> BadUuid]
        ELSE [ok |-> TRUE, value |-> [i \in 1..32 |-> HexValue(digits[i])]]

(* UUID.hex: the 32 lower-case digits of the value *)
UuidHex(u) == [i \in 1..32 |-> LowerHex[u[i] + 1]]

(***************************************************************************)
(* The cpix package (the library the script drives).                       *)
(***************************************************************************)

(* cpix.ContentKey(kid=, cek=): the key id is held as a UUID, the content *)
(* key as given (base64)                                                   *)
ContentKey(kid, cek) ==
    LET u == UUID(kid)
    IN  IF u.ok THEN [ok |-> TRUE, key |-> [kid |-> u.value, cek |-> cek]]
        ELSE [ok |-> FALSE, error |-> u.error]

(***************************************************************************)
(* parse_keys                                                              *)
(***************************************************************************)
MalformedKeySpec == "key must be KEY_ID:CONTENT_KEY (missing :)"
KeyIdLength == "key ID must be 128-bit"
CekLength == "cek must be 128-bit"

(* variant: extra tokens are ignored *)
unpack2_lax(parts) == Len(parts) >= 2

(* kid, cek = parts: ValueError unless there are exactly two *)
unpack2(parts) == Len(parts) = 2

(* one iteration of the for-loop of parse_keys on the raw string key: the *)
(* ContentKey appended, or the exception raised                            *)
parse_key(key) ==
    LET parts == split(key, ":")
    IN  IF ~unpack2(parts) THEN [ok |-> FALSE, error |-> MalformedKeySpec]
        ELSE
        LET kid == parts[1]
            cek == parts[2]
        IN  IF Len(kid) # KeyHexLen THEN [ok |-> FALSE, error |-> KeyIdLength]
            ELSE IF Len(cek) # KeyHexLen THEN [ok |-> FALSE, error |-> CekLength]
            ELSE LET raw == b16decode(cek)
                 IN  IF ~raw.ok THEN [ok |-> FALSE, error |-> raw.error]
                     ELSE ContentKey(kid, b64encode(raw.value))

(* cpix.DRMSystem(kid=, system_id=, pssh=) *)
WIDEVINE_SYSTEM_ID == "edef8ba9-79d6-4ace-a3c8-27dcd51d21ed"
PLAYREADY_SYSTEM_ID == "9a04f079-9840-4286-ab92-e65be0885f95"

DRMSystem(kid, system_id, pssh) == [kid |-> kid, system_id |-> system_id, pssh |-> pssh]

(* widevine.generate_pssh(key_ids=, provider=, content_id=, version=): a  *)
(* pure function of its arguments; the box is kept opaque, as the value   *)
(* of the call; no keys is an error                                        *)
NoKeysForSystem == "NoKeysForSystem"
MissingRequiredOption == "MissingRequiredOption"

widevine_generate_pssh(key_ids, provider, content_id, version) ==
    IF key_ids = <<>> THEN [ok |-> FALSE, error |-> NoKeysForSystem]
    ELSE [ok |-> TRUE,
          pssh |-> [system |-> "widevine", key_ids |-> key_ids, provider |-> provider,
                    content_id |-> content_id, version |-> version]]

(* playready.generate_pssh(keys=, url=, algorithm=, version=): likewise;  *)
(* a missing license-acquisition URL is an error                           *)
playready_generate_pssh(ks, url, algorithm, version) ==
    IF url = None THEN [ok |-> FALSE, error |-> MissingRequiredOption]
    ELSE [ok |-> TRUE,
          pssh |-> [system |-> "playready", keys |-> ks, url |-> url,
                    algorithm |-> algorithm, version |-> version]]

(* b64encode(pssh) of an opaque box: the text that encodes that box *)
b64encode_pssh(pssh) == <<"base64", pssh>>

(* the usage rules of the preset table *)
AudioUsageRule(kid) == [kid |-> kid, filters |-> <<[type |-> "AudioFilter"]>>]

VideoFilter(minPixels, maxPixels) ==
    [type |-> "VideoFilter", minPixels |-> minPixels, maxPixels |-> maxPixels]

VideoUsageRule(kid) == [kid |-> kid, filters |-> <<VideoFilter(None, None)>>]
SDVideoUsageRule(kid) == [kid |-> kid, filters |-> <<VideoFilter(None, 442368)>>]
HDVideoUsageRule(kid) == [kid |-> kid, filters |-> <<VideoFilter(442369, 2073600)>>]
UHD1VideoUsageRule(kid) == [kid |-> kid, filters |-> <<VideoFilter(2073601, 8847360)>>]
UHD2VideoUsageRule(kid) == [kid |-> kid, filters |-> <<VideoFilter(8847361, None)>>]

(***************************************************************************)
(* main: the pieces of its steps                                           *)
(***************************************************************************)
LaUrlRequired == "When setting --playready must also set --playready.la_url"
InvalidPresetKeyId == "Invalid key ID in preset usage rule."
InvalidCustomKeyId == "Invalid key ID in custom usage rule."
InvalidPreset == "Invalid preset rule. Allowed values are: audio, video, video_sd, video_hd, video_uhd1, video_uhd2"

(* argparse defaults of --widevine.pssh_version and --playready.pssh_version *)
DefaultPsshVersion == 1
(* argparse default of --playready.cbcs *)
DefaultAlgorithm == "AESCTR"

(* variant: the required-option check is left out *)
missing_la_url_never(a) == FALSE

(* args.playready and args.playready_la_url is None *)
missing_la_url(a) == a.playready /\ a.playready_la_url = None

(* [key.kid for key in keys] *)
key_ids_of(ks) == [i \in 1..Len(ks) |-> ks[i].kid]

(* variant: the keys are walked last to first *)
drm_entries_reversed(ks, system_id, pssh) ==
    [i \in 1..Len(ks) |->
        DRMSystem(ks[Len(ks) + 1 - i].kid, system_id, b64encode_pssh(pssh))]

(* for key in keys: drm_systems.append(cpix.DRMSystem(...)) *)
drm_entries(ks, system_id, pssh) ==
    [i \in 1..Len(ks) |-> DRMSystem(ks[i].kid, system_id, b64encode_pssh(pssh))]

(* [{"key_id": key.kid, "key": b16encode(b64decode(key.cek))} for key in keys] *)
playready_keys(ks) ==
    [i \in 1..Len(ks) |-> [key_id |-> ks[i].kid, key |-> b16encode(b64decode(ks[i].cek))]]

(* variant: the membership test always succeeds *)
kid_in_keys_always(kid, ks) == TRUE

(* kid in [key.kid for key in keys] *)
kid_in_keys(kid, ks) == kid \in Range(key_ids_of(ks))

(* one iteration of the preset loop on rule = <<KID, USAGE_RULE_PRESET>>: *)
(* the usage rule appended, or the message of parser.error                *)
preset_rule(rule, ks) ==
    LET u == UUID(rule[1])
    IN  IF ~u.ok THEN [ok |-> FALSE, error |-> InvalidPresetKeyId]
        ELSE IF ~kid_in_keys(u.value, ks) THEN [ok |-> FALSE, error |-> InvalidPresetKeyId]
        ELSE LET kid == u.value
             IN  CASE rule[2] = "audio" -> [ok |-> TRUE, rule |-> AudioUsageRule(kid)]
                   [] rule[2] = "video" -> [ok |-> TRUE, rule |-> VideoUsageRule(kid)]
                   [] rule[2] = "video_sd" -> [ok |-> TRUE, rule |-> SDVideoUsageRule(kid)]
                   [] rule[2] = "video_hd" -> [ok |-> TRUE, rule |-> HDVideoUsageRule(kid)]
                   [] rule[2] = "video_uhd1" -> [ok |-> TRUE, rule |-> UHD1VideoUsageRule(kid)]
                   [] rule[2] = "video_uhd2" -> [ok |-> TRUE, rule |-> UHD2VideoUsageRule(kid)]
                   [] OTHER -> [ok |-> FALSE, error |-> InvalidPreset]

(* the loop over rule[1].split(","): the exception the first offending    *)
(* filter raises, or None when the loop runs to its end.  parsed_filters   *)
(* is the empty dict throughout, so parsed_filters["audio"] is a KeyError  *)
RECURSIVE custom_filters(_)
custom_filters(filters) ==
    IF filters = <<>> THEN None
    ELSE LET parts == split(Head(filters), ":")
         IN  IF ~unpack2(parts) THEN "ValueError"
             ELSE LET filter_type == parts[1]
                      params == split(parts[2], "=")
                  IN  IF ~unpack2(params) THEN "ValueError"
                      ELSE IF filter_type = <<"audio">> THEN "KeyError"
                      ELSE custom_filters(Tail(filters))

(* one iteration of the custom loop on rule = <<KID, USAGE_RULE>>: it     *)
(* appends nothing; it ends in parser.error, in an uncaught exception, or *)
(* normally                                                                *)
custom_rule(rule, ks) ==
    LET u == UUID(rule[1])
    IN  IF ~u.ok THEN [outcome |-> "error", error |-> InvalidCustomKeyId]
        ELSE IF ~kid_in_keys(u.value, ks) THEN [outcome |-> "error", error |-> InvalidCustomKeyId]
        ELSE LET exc == custom_filters(split(rule[2], ","))
             IN  IF exc = None THEN [outcome |-> "ok", error |-> None]
                 ELSE [outcome |-> "crash", error |-> exc]

(***************************************************************************)
(* The command lines considered.                                           *)
(***************************************************************************)
KID1 == <<"E", "8", "2", "F", "1", "8", "4", "C", "3", "A", "A", "A", "5", "7", "B", "4", "A", "C", "E", "8", "6", "0", "6", "B", "5", "E", "3", "F", "E", "B", "A", "D">>
CEK1 == <<"C", "2", "F", "A", "F", "6", "6", "E", "2", "8", "5", "2", "C", "C", "4", "C", "4", "A", "7", "5", "1", "F", "0", "A", "2", "A", "9", "4", "1", "F", "D", "B">>
KID2 == <<"0", "1", "2", "3", "4", "5", "6", "7", "8", "9", "A", "B", "C", "D", "E", "F", "0", "1", "2", "3", "4", "5", "6", "7", "8", "9", "A", "B", "C", "D", "E", "F">>
CEK2 == <<"F", "E", "D", "C", "B", "A", "9", "8", "7", "6", "5", "4", "3", "2", "1", "0", "F", "E", "D", "C", "B", "A", "9", "8", "7", "6", "5", "4", "3", "2", "1", "0">>
KID3 == <<"A", "A", "A", "A", "A", "A", "A", "A", "A", "A", "A", "A", "A", "A", "A", "A", "A", "A", "A", "A", "A", "A", "A", "A", "A", "A", "A", "A", "A", "A", "A", "A">>
NotAUuid == <<"k", "i", "d">>

ToLower(s) == [i \in 1..Len(s) |-> IF IsHexDigit(s[i]) THEN LowerHex[HexValue(s[i]) + 1] ELSE s[i]]
ToUpper(s) == [i \in 1..Len(s) |-> IF IsHexDigit(s[i]) THEN UpperHex[HexValue(s[i]) + 1] ELSE s[i]]

Key1 == KID1 \o <<":">> \o CEK1
Key2 == ToLower(KID2) \o <<":">> \o CEK2
Key2LowerCek == KID2 \o <<":">> \o ToLower(CEK2)
Key1MixedCek == KID1 \o <<":">> \o <<"c">> \o Tail(CEK1)
KeyNoColon == KID1 \o CEK1
KeyTwoColons == KID1 \o <<":">> \o CEK1 \o <<":">> \o CEK1
KeyShortKid == Tail(KID1) \o <<":">> \o CEK1
KeyLongCek == KID1 \o <<":">> \o CEK1 \o <<"0">>
KeyNonHexKid == <<"G">> \o Tail(KID1) \o <<":">> \o CEK1
KeyNonHexCek == KID1 \o <<":">> \o <<"Z">> \o Tail(CEK1)

RawKeys ==
    {Key1, Key2, Key2LowerCek, Key1MixedCek, KeyNoColon, KeyTwoColons,
     KeyShortKid, KeyLongCek, KeyNonHexKid, KeyNonHexCek}

(* --usage_rule_preset KID USAGE_RULE_PRESET; videouhd2 is the misspelt   *)
(* entry of PRESET_USAGE_RULES, which no branch of main accepts           *)
PresetArgs ==
    ({KID1, KID2} \X {"audio", "video_hd", "videouhd2"})
        \cup {<<KID3, "video_hd">>, <<NotAUuid, "audio">>}

(* the example of the module docstring *)
FilterExample ==
    <<"video", ":", "min_pixels", "=", "0", ",", "video", ":", "max_pixels", "=", "442368", ",",
      "bitrate", ":", "max_bitrate", "=", "500000">>
FilterAudio == <<"audio">>
FilterAudioParam == <<"audio", ":", "x", "=", "1">>
FilterNoValue == <<"video", ":", "max_pixels">>

(* --usage_rule KID USAGE_RULE *)
CustomArgs ==
    ({KID2} \X {FilterExample, FilterAudio, FilterAudioParam, FilterNoValue})
        \cup {<<KID3, FilterExample>>, <<NotAUuid, FilterExample>>}

LaUrl == "https://example.com/rightsmanager.asmx"

(***************************************************************************)
(* The state of a run of main.                                             *)
(***************************************************************************)
VARIABLES
    pc,            \* position in main, or how the run ended
    args,          \* the options: widevine, playready, playready_la_url
    args_keys,     \* args.keys, as far as parse_keys has read it
    args_presets,  \* args.preset_usage_rules, as far as the preset loop has read it
    args_customs,  \* args.custom_usage_rules, as far as the custom loop has read it
    parsed_keys,   \* the ContentKeyList parse_keys is building
    keys,          \* main's keys: None until parse_keys has returned
    drm_systems,   \* the DRMSystemList
    usage_rules,   \* the UsageRuleList
    error,         \* the message of parser.error or the uncaught exception
    pssh_calls,    \* the generate_pssh calls made so far
    cpix_doc       \* the assembled document

vars == <<pc, args, args_keys, args_presets, args_customs, parsed_keys, keys, drm_systems,
          usage_rules, error, pssh_calls, cpix_doc>>

Init ==
    /\ pc = "check_options"
    /\ args \in [widevine : BOOLEAN, playready : BOOLEAN, playready_la_url : {None, LaUrl}]
    /\ args_keys = <<>>
    /\ args_presets = <<>>
    /\ args_customs = <<>>
    /\ parsed_keys = <<>>
    /\ keys = None
    /\ drm_systems = <<>>
    /\ usage_rules = <<>>
    /\ error = None
    /\ pssh_calls = <<>>
    /\ cpix_doc = None

(* parser.error(message): the message is printed and the process exits 2 *)
ParserError(message) ==
    /\ pc' = "error"
    /\ error' = message

(* check conditionally required options are set *)
CheckOptions ==
    /\ pc = "check_options"
    /\ IF missing_la_url(args) THEN ParserError(LaUrlRequired)
       ELSE pc' = "parse_keys" /\ UNCHANGED error
    /\ UNCHANGED <<args, args_keys, args_presets, args_customs, parsed_keys, keys,
                   drm_systems, usage_rules, pssh_calls, cpix_doc>>

(* parse_keys(args.keys), one iteration of its loop; an exception leaves  *)
(* parse_keys, its list is dropped, and main turns it into parser.error(e) *)
ParseKey ==
    /\ pc = "parse_keys"
    /\ Len(args_keys) < MaxKeys
    /\ \E key \in RawKeys :
          LET r == parse_key(key)
          IN  /\ args_keys' = Append(args_keys, key)
              /\ IF r.ok THEN /\ parsed_keys' = Append(parsed_keys, r.key)
                              /\ UNCHANGED <<pc, error>>
                 ELSE /\ parsed_keys' = <<>>
                      /\ ParserError(r.error)
    /\ UNCHANGED <<args, args_presets, args_customs, keys, drm_systems, usage_rules,
                   pssh_calls, cpix_doc>>

(* return parsed_keys; --key is required, so there is at least one *)
ParseKeysReturn ==
    /\ pc = "parse_keys"
    /\ Len(args_keys) >= 1
    /\ keys' = parsed_keys
    /\ pc' = "widevine"
    /\ UNCHANGED <<args, args_keys, args_presets, args_customs, parsed_keys, drm_systems,
                   usage_rules, error, pssh_calls, cpix_doc>>

(* if args.widevine: one PSSH from all key ids, one DRMSystem per key *)
Widevine ==
    /\ pc = "widevine"
    /\ IF args.widevine
       THEN LET g == widevine_generate_pssh(key_ids_of(keys), None, None, DefaultPsshVersion)
            IN  IF g.ok
                THEN /\ pssh_calls' = Append(pssh_calls, g.pssh)
                     /\ drm_systems' = drm_systems \o drm_entries(keys, WIDEVINE_SYSTEM_ID, g.pssh)
                     /\ pc' = "playready"
                     /\ UNCHANGED error
                ELSE /\ pc' = "crashed"
                     /\ error' = g.error
                     /\ UNCHANGED <<pssh_calls, drm_systems>>
       ELSE /\ pc' = "playready"
            /\ UNCHANGED <<pssh_calls, drm_systems, error>>
    /\ UNCHANGED <<args, args_keys, args_presets, args_customs, parsed_keys, keys,
                   usage_rules, cpix_doc>>

(* if args.playready: likewise, from the key ids and the hex content keys *)
PlayReady ==
    /\ pc = "playready"
    /\ IF args.playready
       THEN LET g == playready_generate_pssh(playready_keys(keys), args.playready_la_url,
                                             DefaultAlgorithm, DefaultPsshVersion)
            IN  IF g.ok
                THEN /\ pssh_calls' = Append(pssh_calls, g.pssh)
                     /\ drm_systems' = drm_systems \o drm_entries(keys, PLAYREADY_SYSTEM_ID, g.pssh)
                     /\ pc' = "presets"
                     /\ UNCHANGED error
                ELSE /\ pc' = "crashed"
                     /\ error' = g.error
                     /\ UNCHANGED <<pssh_calls, drm_systems>>
       ELSE /\ pc' = "presets"
            /\ UNCHANGED <<pssh_calls, drm_systems, error>>
    /\ UNCHANGED <<args, args_keys, args_presets, args_customs, parsed_keys, keys,
                   usage_rules, cpix_doc>>

(* one iteration of: for rule in args.preset_usage_rules *)
PresetRule ==
    /\ pc = "presets"
    /\ Len(args_presets) < MaxPresetRules
    /\ \E rule \in PresetArgs :
          LET r == preset_rule(rule, keys)
          IN  /\ args_presets' = Append(args_presets, rule)
              /\ IF r.ok THEN /\ usage_rules' = Append(usage_rules, r.rule)
                              /\ UNCHANGED <<pc, error>>
                 ELSE /\ ParserError(r.error)
                      /\ UNCHANGED usage_rules
    /\ UNCHANGED <<args, args_keys, args_customs, parsed_keys, keys, drm_systems,
                   pssh_calls, cpix_doc>>

(* the preset loop is over (or there was no --usage_rule_preset) *)
PresetsDone ==
    /\ pc = "presets"
    /\ pc' = "customs"
    /\ UNCHANGED <<args, args_keys, args_presets, args_customs, parsed_keys, keys,
                   drm_systems, usage_rules, error, pssh_calls, cpix_doc>>

(* one iteration of: for rule in args.custom_usage_rules *)
CustomRule ==
    /\ pc = "customs"
    /\ Len(args_customs) < MaxCustomRules
    /\ \E rule \in CustomArgs :
          LET r == custom_rule(rule, keys)
          IN  /\ args_customs' = Append(args_customs, rule)
              /\ CASE r.outcome = "ok" -> UNCHANGED <<pc, error>>
                   [] r.outcome = "error" -> ParserError(r.error)
                   [] r.outcome = "crash" -> pc' = "crashed" /\ error' = r.error
    /\ UNCHANGED <<args, args_keys, args_presets, parsed_keys, keys, drm_systems,
                   usage_rules, pssh_calls, cpix_doc>>

(* exit(0): the statements after it (cpix.CPIX(...), pretty_print, the    *)
(* output) are never reached, so cpix_doc stays None                      *)
Exit ==
    /\ pc = "customs"
    /\ pc' = "exited"
    /\ UNCHANGED <<args, args_keys, args_presets, args_customs, parsed_keys, keys,
                   drm_systems, usage_rules, error, pssh_calls, cpix_doc>>

Next ==
    \/ CheckOptions
    \/ ParseKey
    \/ ParseKeysReturn
    \/ Widevine
    \/ PlayReady
    \/ PresetRule
    \/ PresetsDone
    \/ CustomRule
    \/ Exit

Spec == Init /\ [][Next]_vars

Ended == pc \in {"exited", "error", "crashed"}

TypeOK ==
    /\ pc \in {"check_options", "parse_keys", "widevine", "playready", "presets",
               "customs", "exited", "error", "crashed"}
    /\ Len(parsed_keys) <= Len(args_keys)
    /\ keys # None => keys = parsed_keys
    /\ Len(args_keys) <= MaxKeys
    /\ cpix_doc = None

(***************************************************************************)
(* Properties.                                                             *)
(***************************************************************************)
Tokens(raw) == split(raw, ":")
IsHex32(tok) == Len(tok) = 32 /\ \A i \in 1..Len(tok) : IsHexDigit(tok[i])
ValidPair(raw) == Len(Tokens(raw)) = 2 /\ IsHex32(Tokens(raw)[1]) /\ IsHex32(Tokens(raw)[2])
KeyIdSet == IF keys = None THEN {} ELSE {keys[i].kid : i \in 1..Len(keys)}
KnownKid(kidstr) == UUID(kidstr).ok /\ UUID(kidstr).value \in KeyIdSet
DrmStepDone ==
    \/ pc \in {"presets", "customs", "exited"}
    \/ Ended /\ (args_presets # <<>> \/ args_customs # <<>>)

(* C1: a raw key that does not split on ':' into exactly two tokens ends   *)
(* parse_keys, as soon as it is read, with the malformed-key-spec error,  *)
(* and main gets no key list.                                              *)
C1_MalformedKeySpec ==
    \A i \in 1..Len(args_keys) :
        Len(Tokens(args_keys[i])) # 2 =>
            /\ i = Len(args_keys)
            /\ pc = "error"
            /\ error = MalformedKeySpec
            /\ keys = None

C1_Witness ==
    /\ Len(args_keys) = 2
    /\ Len(Tokens(args_keys[1])) = 2
    /\ Len(Tokens(args_keys[2])) = 3
    /\ pc = "error"
    /\ error = MalformedKeySpec

(* C2: a raw key of exactly two tokens, one of which is not a              *)
(* 32-character hexadecimal string (wrong length, or 32 characters with a *)
(* non-hexadecimal one), fails with the invalid-key-length error that     *)
(* names the offending token.                                              *)
C2_InvalidKeyLength ==
    \A i \in 1..Len(args_keys) :
        LET t == Tokens(args_keys[i])
        IN  Len(t) = 2 =>
               /\ ~IsHex32(t[1]) => pc = "error" /\ error = KeyIdLength
               /\ (IsHex32(t[1]) /\ ~IsHex32(t[2])) => pc = "error" /\ error = CekLength

(* C3: a batch of N raw keys yields N keys in input order or the first     *)
(* error; two raw keys with the same key id fail with DuplicateKeyId, so   *)
(* a returned list has no repeated key id.                                 *)
C3_NoDuplicateKeyIds ==
    /\ keys # None =>
          /\ Len(keys) = Len(args_keys)
          /\ \A i \in 1..Len(keys) : keys[i].kid = UUID(Tokens(args_keys[i])[1]).value
          /\ \A i, j \in 1..Len(keys) : i # j => keys[i].kid # keys[j].kid
    /\ \A i, j \in 1..Len(args_keys) :
          (/\ i < j
           /\ ValidPair(args_keys[i])
           /\ ValidPair(args_keys[j])
           /\ UUID(Tokens(args_keys[i])[1]) = UUID(Tokens(args_keys[j])[1]))
             => pc = "error" /\ error = "DuplicateKeyId"

(* C4: every valid pair of 32-digit hexadecimal tokens, in any letter      *)
(* case, is parsed, and decoding the stored content key (base64 decode,    *)
(* base16 encode) and re-encoding the key id give the original tokens up   *)
(* to letter case.                                                         *)
C4_RoundTrip ==
    \A i \in 1..Len(args_keys) :
        ValidPair(args_keys[i]) =>
            /\ i <= Len(parsed_keys)
            /\ ToUpper(b16encode(b64decode(parsed_keys[i].cek))) = ToUpper(Tokens(args_keys[i])[2])
            /\ ToUpper(UuidHex(parsed_keys[i].kid)) = ToUpper(Tokens(args_keys[i])[1])

(* C5: with PlayReady enabled and no license-acquisition URL the run       *)
(* fails with the missing-option error before any key is parsed: no key   *)
(* is read, no PSSH is generated and no DRM entry is created.              *)
C5_MissingLaUrl ==
    (args.playready /\ args.playready_la_url = None) =>
        /\ pc \in {"check_options", "error"}
        /\ pc = "error" => error = LaUrlRequired
        /\ args_keys = <<>>
        /\ parsed_keys = <<>>
        /\ keys = None
        /\ pssh_calls = <<>>
        /\ drm_systems = <<>>

C5_Witness ==
    /\ args.playready
    /\ args.widevine
    /\ args.playready_la_url = None
    /\ pc = "error"
    /\ error = LaUrlRequired

(* C6: a preset or custom rule whose key id is not the id of a parsed key  *)
(* (or is no UUID) ends the run with the invalid-key-id error of its loop  *)
(* and appends nothing; a preset rule with a parsed key's id and a valid   *)
(* preset name is appended.                                                *)
C6_UnknownKeyReference ==
    /\ \A i \in 1..Len(args_presets) :
          /\ ~KnownKid(args_presets[i][1]) =>
                /\ i = Len(args_presets)
                /\ pc = "error"
                /\ error = InvalidPresetKeyId
                /\ Len(usage_rules) = i - 1
          /\ (/\ KnownKid(args_presets[i][1])
              /\ args_presets[i][2] \in {"audio", "video", "video_sd", "video_hd",
                                         "video_uhd1", "video_uhd2"}) =>
                /\ i <= Len(usage_rules)
                /\ usage_rules[i].kid = UUID(args_presets[i][1]).value
    /\ \A i \in 1..Len(args_customs) :
          ~KnownKid(args_customs[i][1]) =>
                /\ i = Len(args_customs)
                /\ pc = "error"
                /\ error = InvalidCustomKeyId
                /\ Len(usage_rules) = Len(args_presets)

C6_Witness ==
    /\ Len(args_presets) = 1
    /\ KnownKid(args_presets[1][1])
    /\ Len(usage_rules) = 1
    /\ Len(args_customs) = 1
    /\ UUID(args_customs[1][1]).ok
    /\ ~KnownKid(args_customs[1][1])
    /\ pc = "error"
    /\ error = InvalidCustomKeyId

(* C7: the usage-rule list never holds two rules for one key id, and two   *)
(* rules given for the same key id end the run in an error.                *)
C7_OneRulePerKey ==
    /\ \A i, j \in 1..Len(usage_rules) : i # j => usage_rules[i].kid # usage_rules[j].kid
    /\ LET given == args_presets \o args_customs
       IN  \A i, j \in 1..Len(given) :
              (i < j /\ KnownKid(given[i][1]) /\ UUID(given[i][1]) = UUID(given[j][1]))
                 => pc = "error"

(* C8: the docstring's custom rule, for a known key id, yields one usage   *)
(* rule for that key with VideoFilter(minPixels=0, maxPixels=442368) and   *)
(* BitrateFilter(maxBitrate=500000).                                       *)
C8_CustomRuleExample ==
    \A i \in 1..Len(args_customs) :
        (KnownKid(args_customs[i][1]) /\ args_customs[i][2] = FilterExample) =>
            \E k \in 1..Len(usage_rules) :
                /\ usage_rules[k].kid = UUID(args_customs[i][1]).value
                /\ usage_rules[k].filters =
                      <<VideoFilter(0, 442368),
                        [type |-> "BitrateFilter", minBitrate |-> None, maxBitrate |-> 500000]>>

(* C9: two valid keys, Widevine, a video_hd preset on the first key and a  *)
(* custom audio rule on the second: the run raises no error, assembles and *)
(* writes a document of 2 keys, 2 DRM entries and 2 usage rules.           *)
C9_EndToEnd ==
    (/\ args.widevine
     /\ ~args.playready
     /\ args_keys = <<Key1, Key2>>
     /\ args_presets = <<<<KID1, "video_hd">>>>
     /\ args_customs = <<<<KID2, FilterAudio>>>>) =>
        /\ pc \notin {"error", "crashed"}
        /\ error = None
        /\ pc = "exited" =>
              /\ cpix_doc # None
              /\ Len(cpix_doc.content_keys) = 2
              /\ Len(cpix_doc.drm_systems) = 2
              /\ Len(cpix_doc.usage_rules) = 2

(* C10: after the DRM-system step the DRM list is, in this order, one      *)
(* Widevine entry per key in key order (if Widevine is enabled) and one    *)
(* PlayReady entry per key in key order (if PlayReady is enabled); every   *)
(* entry of a system carries the one PSSH generated from the whole key     *)
(* list.                                                                   *)
C10_DrmEntries ==
    DrmStepDone =>
        LET n == Len(keys)
            w == IF args.widevine THEN 1 ELSE 0
            p == IF args.playready THEN 1 ELSE 0
        IN  /\ Len(drm_systems) = n * (w + p)
            /\ Len(pssh_calls) = w + p
            /\ \A e \in 1..Len(drm_systems) : drm_systems[e].kid \in KeyIdSet
            /\ args.widevine =>
                  /\ pssh_calls[1].system = "widevine"
                  /\ pssh_calls[1].key_ids = [i \in 1..n |-> keys[i].kid]
                  /\ \A i \in 1..n :
                        drm_systems[i] = [kid |-> keys[i].kid,
                                          system_id |-> WIDEVINE_SYSTEM_ID,
                                          pssh |-> <<"base64", pssh_calls[1]>>]
            /\ args.playready =>
                  /\ pssh_calls[w + 1].system = "playready"
                  /\ [i \in 1..n |-> pssh_calls[w + 1].keys[i].key_id] = [i \in 1..n |-> keys[i].kid]
                  /\ \A i \in 1..n :
                        drm_systems[w * n + i] = [kid |-> keys[i].kid,
                                                  system_id |-> PLAYREADY_SYSTEM_ID,
                                                  pssh |-> <<"base64", pssh_calls[w + 1]>>]

C10_Witness ==
    /\ pc = "presets"
    /\ args.widevine
    /\ args.playready
    /\ Len(keys) = 2
    /\ keys[1].kid # keys[2].kid
    /\ Len(drm_systems) = 4

=============================================================================
